---------------------------- MODULE Spec2Model ----------------------------
(***************************************************************************)
(* Model of the food builder export (data/food/export_agb/                 *)
(* export_builder.py): the script that builds the builder process list     *)
(* from activities.json, computes the LCA impacts of every process,        *)
(* composes the impacts of complex ingredients, applies the corrections    *)
(* of impacts.json and writes ingredients.json and builder.json; and of    *)
(* the object export (data/object/export.py): the script that computes     *)
(* the impacts of the object processes, corrects them, reports the changes *)
(* against the dataset exported before and writes processes_impacts.json.  *)
(* A behaviour is one run of one of the two scripts.                       *)
(*                                                                         *)
(* A Python dict is a function whose DOMAIN is its set of keys; where the  *)
(* iteration order of a dict matters it is kept beside it as a sequence.   *)
(* Impact scores are fixed-point numbers in units of 1/10000 (10.0 is      *)
(* 100000); a ratio is a pair <<numerator, denominator>> (1.2 is <<6, 5>>) *)
(* and None, for a ratio, is the empty tuple.                              *)
(***************************************************************************)
EXTENDS Integers, Sequences, FiniteSets, TLC

VARIABLES
    activities,     \* activities.json, a list of activity records
    corrections,    \* the corrections of impacts.json, in dict order
    pc,             \* position of the script
    ingredients,    \* the ingredient list
    builder,        \* the builder dict: process id -> process record
    builder_keys,   \* list(builder.keys()): insertion order of builder
    order,          \* the sorted list of process ids the impact loop walks
    index,          \* enumerate() index of the running loop
    files,          \* output file name -> content written
    processes,      \* object export: the process list, items <<id, reference
                    \* to the record of activities>> in dict order
    processes_impacts,            \* items <<id, record>> with impacts
    processes_corrected_impacts,  \* items <<id, record>> after corrections
    previous,       \* PROCESSES_FILE as found when the run starts
    oldprocesses,   \* the dataset loaded from PROCESSES_FILE
    changes,        \* the change report, a list of change records
    merge_vector,   \* twin merge: the impacts dict the merge works on
    merge_raised,   \* twin merge: a KeyError was raised
    merge_applied,  \* twin merge: number of times the merge was applied
    countries,            \* distances.py: the list of country codes
    remaining_countries,  \* the countries not yet taken as country_from
    distances,            \* country_from -> country_to -> distances
    country_from_dic,     \* the distances of the current country_from
    route_i,              \* the route counter i
    country_from_at,      \* place of the outer loop in countries
    country_to_at,        \* place of the inner loop in remaining_countries
    queries,              \* the routes queried so far, in order
    imported,         \* import.py: agribalyse.data before the cleanup loop
    agribalyse_data,  \* agribalyse.data
    ds_at,            \* place of the loop over the datasets
    exchange_at,      \* place of enumerate() in the exchanges of a dataset
    valid_tokens,     \* views.py: the tokens is_token_valid accepts
    request,          \* the request being handled
    response,         \* the response returned for it
    handled           \* number of requests handled

\* the variables only the object export uses
object_vars == <<processes, processes_impacts, processes_corrected_impacts,
                 previous, oldprocesses, changes>>

\* the variables only the food builder export uses
food_vars == <<ingredients, builder, builder_keys, order>>

\* the state of the two export scripts
export_vars == <<activities, corrections, pc, ingredients, builder, builder_keys,
                 order, index, files, processes, processes_impacts,
                 processes_corrected_impacts, previous, oldprocesses, changes>>

\* the state of the twin merge of compute_impacts
merge_vars == <<merge_vector, merge_raised, merge_applied>>

\* the state of distances.py
distance_vars == <<countries, remaining_countries, distances, country_from_dic,
                   route_i, country_from_at, country_to_at, queries>>

\* the state of the cleanup loop of import_agribalyse
import_vars == <<imported, agribalyse_data, ds_at, exchange_at>>

\* the state of the processes view
view_vars == <<valid_tokens, request, response, handled>>

\* the state of the programs other than the two export scripts
tool_vars == <<merge_vars, distance_vars, import_vars, view_vars>>

vars == <<export_vars, tool_vars>>

\* the export scripts are not running
ExportsIdle ==
    /\ activities = << >>
    /\ corrections = << >>
    /\ pc = "idle"
    /\ ingredients = << >>
    /\ builder = << >>
    /\ builder_keys = << >>
    /\ order = << >>
    /\ index = 0
    /\ files = << >>
    /\ processes = << >>
    /\ processes_impacts = << >>
    /\ processes_corrected_impacts = << >>
    /\ previous = [status |-> "absent", content |-> << >>]
    /\ oldprocesses = << >>
    /\ changes = << >>

MergeIdle == merge_vector = << >> /\ merge_raised = FALSE /\ merge_applied = 0

DistancesIdle ==
    /\ countries = << >>
    /\ remaining_countries = << >>
    /\ distances = << >>
    /\ country_from_dic = << >>
    /\ route_i = 0
    /\ country_from_at = 0
    /\ country_to_at = 0
    /\ queries = << >>

ImportIdle ==
    /\ imported = << >>
    /\ agribalyse_data = << >>
    /\ ds_at = 0
    /\ exchange_at = 0

ViewIdle ==
    /\ valid_tokens = {}
    /\ request = << >>
    /\ response = << >>
    /\ handled = 0

---------------------------------------------------------------------------
(* Bounds of the model *)

MaxEntities == 2

MaxItems == 2

---------------------------------------------------------------------------
(* File names *)

INGREDIENTS == "../../../public/data/food/ingredients.json"

BUILDER == "../../../public/data/food/processes/builder.json"

None == "None"

NoRatio == <<>>

---------------------------------------------------------------------------
(* The LCA engine and its database *)

\* keys of food.impacts.impacts: the indicator codes the LCA is run for.
\* The four etf codes are those compute_impacts reads; co2 and ch4 stand for
\* the other codes.
impacts_definition == {"co2", "ch4", "etf-o1", "etf-o2", "etf1", "etf2"}

ImpactRow(co2, ch4, o1, o2, e1, e2) ==
    ("co2" :> co2) @@ ("ch4" :> ch4) @@ ("etf-o1" :> o1) @@ ("etf-o2" :> o2)
        @@ ("etf1" :> e1) @@ ("etf2" :> e2)

\* names the Brightway database knows
DbNames == {"s1", "s2", "s3", "s4", "s5"}

\* db.search(name): the list of processes found for a name
db_search(name) ==
    IF name \in DbNames
        THEN << [name |-> <<"name of", name>>,
                 identifier |-> <<"Process identifier of", name>>,
                 system_description |-> <<"System description of", name>>] >>
        ELSE << >>

\* the assertion of search(): at least one result
search_found(name) == Len(db_search(name)) >= 1

search(name) == db_search(name)[1]

\* float("{:.10g}".format(lca.score)) of the process found for a search key,
\* for one method: the score as stored, in units of 1/10000
lca_score(name, key) ==
    CASE name = "s1" -> ImpactRow(100000, 1000, 3000, 4000, 5000, 6000)[key]
      [] name = "s2" -> ImpactRow(80000, 2000, 2500, 4500, 5500, 7000)[key]
      [] name = "s3" -> ImpactRow(20000, 1000, 1250, 1500, 1750, 2250)[key]
      [] name = "s4" -> ImpactRow(40000, 3000, 3750, 500, 250, 8000)[key]
      [] OTHER       -> ImpactRow(60000, 4000, 125, 375, 625, 875)[key]

---------------------------------------------------------------------------
(* Python dict helpers *)

Del(d, k) == [x \in (DOMAIN d) \ {k} |-> d[x]]

Set(d, k, v) == [x \in (DOMAIN d) \cup {k} |-> IF x = k THEN v ELSE d[x]]

\* compute_impacts(activity): the LCA scores of an activity with the twin
\* codes merged, etf-o = etf-o1 + etf-o2 and etf = etf1 + etf2.  The script
\* defines it and never calls it.
compute_impacts(name) ==
    LET impacts == [key \in impacts_definition |-> lca_score(name, key)]
        with_etf_o == Del(Del(Set(impacts, "etf-o", impacts["etf-o1"] + impacts["etf-o2"]),
                              "etf-o1"), "etf-o2")
    IN  Del(Del(Set(with_etf_o, "etf", with_etf_o["etf1"] + with_etf_o["etf2"]),
                "etf1"), "etf2")

\* d.get(k): None when the key is missing
Get(d, k, default) == IF k \in DOMAIN d THEN d[k] ELSE default

Range(s) == {s[i] : i \in 1 .. Len(s)}

---------------------------------------------------------------------------
(* Input catalogs *)

ActivityIds == <<"a", "b", "c", "d", "e">>

ActivitySearch == <<"s1", "s2", "s3", "s4", "s5">>

Ratios == {<<6, 5>>}

SimpleActivity(i) ==
    [id |-> ActivityIds[i], search |-> ActivitySearch[i], ingredient |-> TRUE]

ComplexActivity(i, r, d, v) ==
    [id |-> ActivityIds[i], search |-> ActivitySearch[i], ingredient |-> TRUE,
     ratio |-> r, subingredient_default |-> d, subingredient_variant |-> v]

\* ids a reference can name in a catalog of n activities: the ids of the
\* catalog and one id that is not in it
RefChoices(n) == {ActivityIds[j] : j \in 1 .. n} \cup {"missing"}

ActivityChoices(i, n) ==
    {SimpleActivity(i)} \cup
    {ComplexActivity(i, r, d, v) :
        r \in Ratios, d \in RefChoices(n), v \in RefChoices(n)}

RECURSIVE CatalogsFrom(_, _)
\* the catalogs of n activities, built from the first k of them
CatalogsFrom(k, n) ==
    IF k = 0 THEN {<< >>}
    ELSE {Append(c, x) : c \in CatalogsFrom(k - 1, n), x \in ActivityChoices(k, n)}

Catalogs == UNION {CatalogsFrom(n, n) : n \in 1 .. MaxEntities}

\* catalogs of three activities: a complex ingredient of two simple ones; a
\* complex ingredient listed before the complex ingredient it refers to; a
\* complex ingredient listed after the complex ingredient it refers to; a
\* complex ingredient whose variant is a complex ingredient listed after it
ExampleCatalogs ==
    { << SimpleActivity(1), SimpleActivity(2), ComplexActivity(3, <<6, 5>>, "a", "b") >>,
      << ComplexActivity(1, <<6, 5>>, "b", "b"), ComplexActivity(2, <<6, 5>>, "c", "c"),
         SimpleActivity(3) >>,
      << SimpleActivity(1), ComplexActivity(2, <<6, 5>>, "a", "a"),
         ComplexActivity(3, <<6, 5>>, "b", "a") >>,
      << SimpleActivity(1), ComplexActivity(2, <<6, 5>>, "a", "c"),
         ComplexActivity(3, <<6, 5>>, "a", "a") >> }

\* catalogs with a complex ingredient whose ratio is 0
RatioZeroCatalogs ==
    { << SimpleActivity(1), SimpleActivity(2), ComplexActivity(3, <<0, 1>>, "a", "b") >>,
      << SimpleActivity(1), ComplexActivity(2, <<0, 1>>, "a", "a") >> }

\* an activity whose search key the database does not know
UnknownActivity(i, ingredient) ==
    [id |-> ActivityIds[i], search |-> "unknown", ingredient |-> ingredient]

\* catalogs with one activity the database does not know: beside a simple
\* ingredient, as a process that is no ingredient, and as the reference of a
\* complex ingredient listed beside an ingredient that does not refer to it
UnknownSearchCatalogs ==
    { << SimpleActivity(1), UnknownActivity(2, TRUE) >>,
      << SimpleActivity(1), UnknownActivity(2, FALSE) >>,
      << UnknownActivity(1, TRUE), ComplexActivity(2, <<6, 5>>, "a", "a"),
         SimpleActivity(3) >> }

\* catalogs in which two activities have the same id
DuplicateIdCatalogs ==
    { << SimpleActivity(1), [SimpleActivity(2) EXCEPT !.id = "a"] >>,
      << SimpleActivity(1), SimpleActivity(2),
         [ComplexActivity(3, <<6, 5>>, "a", "b") EXCEPT !.id = "a"] >> }

\* catalogs with an activity that has some of the three keys of a complex
\* ingredient and not all of them
IncompleteCatalogs ==
    { << SimpleActivity(1), [id |-> "b", search |-> "s2", ingredient |-> TRUE,
                             ratio |-> <<6, 5>>] >>,
      << SimpleActivity(1), [id |-> "b", search |-> "s2", ingredient |-> TRUE,
                             subingredient_default |-> "a",
                             subingredient_variant |-> "a"] >>,
      << [id |-> "a", search |-> "s1", ingredient |-> TRUE,
          ratio |-> <<6, 5>>, subingredient_default |-> "b"],
         SimpleActivity(2) >> }

InputCatalogs ==
    Catalogs \cup ExampleCatalogs \cup RatioZeroCatalogs \cup UnknownSearchCatalogs
        \cup DuplicateIdCatalogs \cup IncompleteCatalogs

\* the corrections used with the catalogs above
DefaultCorrections ==
    << [name |-> "climate",
        correction |-> << [sub_impact |-> "co2", weighting |-> 1],
                          [sub_impact |-> "ch4", weighting |-> 25] >>] >>

\* the catalog the correction rule sets below are run with
RulesCatalog ==
    << SimpleActivity(1), ComplexActivity(2, <<6, 5>>, "a", "b") >>

RuleNames == {"climate", "tox"}

SubImpactNames == {"co2", "climate"}

Weightings == {1, 25}

CorrectionItems ==
    {[sub_impact |-> s, weighting |-> w] : s \in SubImpactNames, w \in Weightings}

CorrectionLists == UNION {[1 .. n -> CorrectionItems] : n \in 0 .. MaxItems}

Rules == {[name |-> r, correction |-> c] : r \in RuleNames, c \in CorrectionLists}

\* corrections is a dict: every reported indicator is the key of one rule
RuleSets ==
    {<< >>} \cup {<<x>> : x \in Rules}
        \cup {p \in Rules \X Rules : p[1].name # p[2].name}

---------------------------------------------------------------------------
(* Initial state: the two input files are read, nothing is computed *)

Init ==
    /\ \/ activities \in InputCatalogs /\ corrections = DefaultCorrections
       \/ activities = RulesCatalog /\ corrections \in RuleSets \cup {DefaultCorrections}
    /\ pc = "ingredients"
    /\ ingredients = << >>
    /\ builder = << >>
    /\ builder_keys = << >>
    /\ order = << >>
    /\ index = 0
    /\ files = << >>
    /\ processes = << >>
    /\ processes_impacts = << >>
    /\ processes_corrected_impacts = << >>
    /\ previous = [status |-> "absent", content |-> << >>]
    /\ oldprocesses = << >>
    /\ changes = << >>
    /\ MergeIdle /\ DistancesIdle /\ ImportIdle /\ ViewIdle

---------------------------------------------------------------------------
(* Creating ingredient list *)

IsIngredient(activity) == Get(activity, "ingredient", FALSE)

IngredientOf(activity) ==
    [id |-> activity.id,
     name |-> search(activity.search).name,
     default |-> search(activity.search).identifier]

\* ingredients.json written as soon as the ingredient list is made
CreateIngredients_writing ==
    /\ pc = "ingredients"
    /\ LET chosen == SelectSeq(activities, IsIngredient)
       IN  IF \A i \in 1 .. Len(chosen) : search_found(chosen[i].search)
               THEN /\ ingredients' = [i \in 1 .. Len(chosen) |-> IngredientOf(chosen[i])]
                    /\ files' = Set(files, INGREDIENTS, ingredients')
                    /\ pc' = "builder"
               ELSE /\ ingredients' = ingredients
                    /\ files' = files
                    /\ pc' = "aborted"
    /\ UNCHANGED object_vars
    /\ UNCHANGED tool_vars
    /\ UNCHANGED <<activities, corrections, builder, builder_keys, order, index>>

CreateIngredients ==
    /\ pc = "ingredients"
    /\ LET chosen == SelectSeq(activities, IsIngredient)
       IN  IF \A i \in 1 .. Len(chosen) : search_found(chosen[i].search)
               THEN /\ ingredients' = [i \in 1 .. Len(chosen) |-> IngredientOf(chosen[i])]
                    /\ pc' = "builder"
               ELSE /\ ingredients' = ingredients
                    /\ pc' = "aborted"
    /\ UNCHANGED object_vars
    /\ UNCHANGED tool_vars
    /\ UNCHANGED <<activities, corrections, builder, builder_keys, order, index, files>>

---------------------------------------------------------------------------
(* Creating builder process list *)

BuilderProcess(activity) ==
    [name |-> search(activity.search).name,
     identifier |-> search(activity.search).identifier,
     system_description |-> search(activity.search).system_description,
     search |-> activity.search,
     ratio |-> Get(activity, "ratio", NoRatio),
     subingredient_default |-> Get(activity, "subingredient_default", None),
     subingredient_variant |-> Get(activity, "subingredient_variant", None),
     impacts |-> << >>]

\* position of the last activity with this id: in a dict comprehension the
\* last value given for a key is the one kept
LastWithId(id) ==
    CHOOSE i \in 1 .. Len(activities) :
        /\ activities[i].id = id
        /\ \A j \in (i + 1) .. Len(activities) : activities[j].id # id

RECURSIVE KeysInOrder(_, _)
\* the ids of the first n activities in order of first occurrence
KeysInOrder(acts, n) ==
    IF n = 0 THEN << >>
    ELSE LET before == KeysInOrder(acts, n - 1)
         IN  IF acts[n].id \in Range(before) THEN before
             ELSE Append(before, acts[n].id)

CreateBuilder ==
    /\ pc = "builder"
    /\ IF \A i \in 1 .. Len(activities) : search_found(activities[i].search)
           THEN /\ builder' = [id \in {activities[i].id : i \in 1 .. Len(activities)} |->
                                  BuilderProcess(activities[LastWithId(id)])]
                /\ builder_keys' = KeysInOrder(activities, Len(activities))
                /\ pc' = "remove"
           ELSE /\ UNCHANGED <<builder, builder_keys>>
                /\ pc' = "aborted"
    /\ UNCHANGED object_vars
    /\ UNCHANGED tool_vars
    /\ UNCHANGED <<activities, corrections, ingredients, order, index, files>>

---------------------------------------------------------------------------
(* remove complex ingredient attributes on simple ingredients *)

\* "not ratio" taken as "ratio is None"
Falsy_none_only(ratio) == ratio = NoRatio

\* Python's "not ratio": None and 0 are falsy
Falsy(ratio) == ratio = NoRatio \/ ratio[1] = 0

ComplexAttributes == {"ratio", "subingredient_default", "subingredient_variant"}

WithoutKeys(d, keys) == [x \in (DOMAIN d) \ keys |-> d[x]]

RemoveComplexAttributes ==
    /\ pc = "remove"
    /\ builder' = [processid \in DOMAIN builder |->
                      IF Falsy(builder[processid].ratio)
                          THEN WithoutKeys(builder[processid], ComplexAttributes)
                          ELSE builder[processid]]
    /\ pc' = "check"
    /\ UNCHANGED object_vars
    /\ UNCHANGED tool_vars
    /\ UNCHANGED <<activities, corrections, ingredients, builder_keys, order, index, files>>

---------------------------------------------------------------------------
(* check that all three attributes are present on complex ingredients *)

\* the check left out
AttributesComplete_unchecked(activity) == TRUE

AttributesComplete(activity) ==
    (\E key \in ComplexAttributes : key \in DOMAIN activity)
        => (\A key \in ComplexAttributes : key \in DOMAIN activity)

CheckAttributes ==
    /\ pc = "check"
    /\ pc' = IF \A i \in 1 .. Len(activities) : AttributesComplete(activities[i])
                 THEN "sort" ELSE "aborted"
    /\ UNCHANGED object_vars
    /\ UNCHANGED tool_vars
    /\ UNCHANGED <<activities, corrections, ingredients, builder, builder_keys,
                   order, index, files>>

---------------------------------------------------------------------------
(* Computing impacts: the loop over the sorted builder items *)

IsComplex(process) == "ratio" \in DOMAIN process

\* sorted(builder.items(), key=lambda x: "ratio" in x[1]): a stable sort on a
\* boolean key keeps the dict order inside each of the two groups
sorted_by_ratio(b, keys) ==
    SelectSeq(keys, LAMBDA id : ~IsComplex(b[id]))
        \o SelectSeq(keys, LAMBDA id : IsComplex(b[id]))

SortProcesses ==
    /\ pc = "sort"
    /\ order' = sorted_by_ratio(builder, builder_keys)
    /\ index' = 0
    /\ pc' = IF Len(builder_keys) = 0 THEN "write_ingredients" ELSE "compute"
    /\ UNCHANGED object_vars
    /\ UNCHANGED tool_vars
    /\ UNCHANGED <<activities, corrections, ingredients, builder, builder_keys, files>>

\* the impacts of a process once the LCA scores of its own search key are stored
lca_impacts(process) ==
    [key \in (DOMAIN process.impacts) \cup impacts_definition |->
        IF key \in impacts_definition
            THEN lca_score(process.search, key)
            ELSE process.impacts[key]]

\* the lookups of the formula raise KeyError: the referenced id is not in
\* builder, or its impacts have no such key
lookup_raises(b, process, impact) ==
    \/ process.subingredient_variant \notin DOMAIN b
    \/ impact \notin DOMAIN b[process.subingredient_variant].impacts
    \/ process.subingredient_default \notin DOMAIN b
    \/ impact \notin DOMAIN b[process.subingredient_default].impacts

\* complex_impact with the two references exchanged
complex_impact_swapped(b, process, impact) ==
    process.impacts[impact]
        + (process.ratio[1]
             * (b[process.subingredient_default].impacts[impact]
                  - b[process.subingredient_variant].impacts[impact]))
            \div process.ratio[2]

\* impact of the complex ingredient =
\*     its own impact + ratio * (impact of variant - impact of default)
complex_impact(b, process, impact) ==
    process.impacts[impact]
        + (process.ratio[1]
             * (b[process.subingredient_variant].impacts[impact]
                  - b[process.subingredient_default].impacts[impact]))
            \div process.ratio[2]

\* the loop over the impacts of a complex ingredient; an impact whose
\* formula raised keeps its value when the debugger resumes the loop
complex_impacts(b, process) ==
    [impact \in DOMAIN process.impacts |->
        IF lookup_raises(b, process, impact)
            THEN process.impacts[impact]
            ELSE complex_impact(b, process, impact)]

constructed_name(processid) == <<processid, ", organic, constructed by Ecobalyse">>

tweak_attributes(processid, process) ==
    [process EXCEPT !.name = constructed_name(processid),
                    !.system_description = <<"Ecobalyse">>,
                    !.identifier = <<"md5">> \o constructed_name(processid)]

UnneededAttributes == {"search"} \cup ComplexAttributes

\* pdb.set_trace() in the except clause: the debugger either resumes the
\* script or quits it (BdbQuit ends the run)
DebuggerOutcomes == {"continue", "quit"}

ComputeProcess ==
    /\ pc = "compute"
    /\ index < Len(order)
    /\ \E dbg \in DebuggerOutcomes :
        LET processid == order[index + 1]
            lca       == [builder[processid] EXCEPT !.impacts = lca_impacts(builder[processid])]
            current   == [builder EXCEPT ![processid] = lca]
            raised    == IsComplex(lca)
                           /\ \E impact \in DOMAIN lca.impacts :
                                 lookup_raises(current, lca, impact)
            process   == IF IsComplex(lca)
                             THEN tweak_attributes(processid,
                                      [lca EXCEPT !.impacts = complex_impacts(current, lca)])
                             ELSE lca
        IN  IF raised /\ dbg = "quit"
                THEN /\ builder' = current
                     /\ pc' = "aborted"
                     /\ index' = index
                ELSE /\ builder' = [builder EXCEPT ![processid] =
                                       WithoutKeys(process, UnneededAttributes)]
                     /\ index' = IF index + 1 = Len(order) THEN 0 ELSE index + 1
                     /\ pc' = IF index + 1 = Len(order) THEN "correct" ELSE "compute"
    /\ UNCHANGED object_vars
    /\ UNCHANGED tool_vars
    /\ UNCHANGED <<activities, corrections, ingredients, builder_keys, order, files>>

---------------------------------------------------------------------------
(* Computing corrected impacts *)

RECURSIVE correct_items_kept(_, _, _)
\* correct_items without the del of the sub-impact
correct_items_kept(impacts, correction, n) ==
    IF n = 0 THEN <<0, impacts>>
    ELSE LET before == correct_items_kept(impacts, correction, n - 1)
             sub_impact_name == correction[n].sub_impact
         IN  IF sub_impact_name \in DOMAIN before[2]
                 THEN << before[1] + before[2][sub_impact_name] * correction[n].weighting,
                         before[2] >>
                 ELSE before

RECURSIVE correct_items(_, _, _)
\* the first n correction items applied to impacts:
\* <<corrected_impact, impacts without the sub-impacts consumed>>
correct_items(impacts, correction, n) ==
    IF n = 0 THEN <<0, impacts>>
    ELSE LET before == correct_items(impacts, correction, n - 1)
             sub_impact_name == correction[n].sub_impact
         IN  IF sub_impact_name \in DOMAIN before[2]
                 THEN << before[1] + before[2][sub_impact_name] * correction[n].weighting,
                         Del(before[2], sub_impact_name) >>
                 ELSE before

\* apply_correction storing the corrected impact in a new dict
apply_correction_alone(impacts, rule) ==
    LET done == correct_items(impacts, rule.correction, Len(rule.correction))
    IN  Set(<< >>, rule.name, done[1])

\* one pass of the loop over corrections.items()
apply_correction(impacts, rule) ==
    LET done == correct_items(impacts, rule.correction, Len(rule.correction))
    IN  Set(done[2], rule.name, done[1])

RECURSIVE corrected_impacts(_, _, _)
\* the first n corrections applied to the impacts of one process
corrected_impacts(impacts, rules, n) ==
    IF n = 0 THEN impacts
    ELSE apply_correction(corrected_impacts(impacts, rules, n - 1), rules[n])

CorrectProcess ==
    /\ pc = "correct"
    /\ index < Len(builder_keys)
    /\ LET processid == builder_keys[index + 1]
       IN  builder' = [builder EXCEPT ![processid].impacts =
                          corrected_impacts(@, corrections, Len(corrections))]
    /\ index' = IF index + 1 = Len(builder_keys) THEN 0 ELSE index + 1
    /\ pc' = IF index + 1 = Len(builder_keys) THEN "write_ingredients" ELSE "correct"
    /\ UNCHANGED object_vars
    /\ UNCHANGED tool_vars
    /\ UNCHANGED <<activities, corrections, ingredients, builder_keys, order, files>>

---------------------------------------------------------------------------
(* Writing the two output files *)

WriteIngredients ==
    /\ pc = "write_ingredients"
    /\ files' = Set(files, INGREDIENTS, ingredients)
    /\ pc' = "write_builder"
    /\ UNCHANGED object_vars
    /\ UNCHANGED tool_vars
    /\ UNCHANGED <<activities, corrections, ingredients, builder, builder_keys, order, index>>

\* the builder written in the order of the impact loop
WriteBuilder_evaluation_order ==
    /\ pc = "write_builder"
    /\ files' = Set(files, BUILDER,
                    [i \in 1 .. Len(order) |-> <<order[i], builder[order[i]]>>])
    /\ pc' = "done"
    /\ UNCHANGED object_vars
    /\ UNCHANGED tool_vars
    /\ UNCHANGED <<activities, corrections, ingredients, builder, builder_keys, order, index>>

\* json.dump(builder): the items of the dict in its iteration order
WriteBuilder ==
    /\ pc = "write_builder"
    /\ files' = Set(files, BUILDER,
                    [i \in 1 .. Len(builder_keys) |->
                        <<builder_keys[i], builder[builder_keys[i]]>>])
    /\ pc' = "done"
    /\ UNCHANGED object_vars
    /\ UNCHANGED tool_vars
    /\ UNCHANGED <<activities, corrections, ingredients, builder, builder_keys, order, index>>

---------------------------------------------------------------------------

Next ==
    \/ CreateIngredients
    \/ CreateBuilder
    \/ RemoveComplexAttributes
    \/ CheckAttributes
    \/ SortProcesses
    \/ ComputeProcess
    \/ CorrectProcess
    \/ WriteIngredients
    \/ WriteBuilder

Spec == Init /\ [][Next]_vars

---------------------------------------------------------------------------
(* Vocabulary of the properties *)

Position(seq, x) == CHOOSE i \in 1 .. Len(seq) : seq[i] = x

ActivityOf(id) == activities[LastWithId(id)]

CatalogIds == {activities[i].id : i \in 1 .. Len(activities)}

\* a complex entity of the catalog: an activity with the three attributes
\* and a ratio that is kept
ComplexIds ==
    {id \in CatalogIds :
        /\ ComplexAttributes \subseteq DOMAIN ActivityOf(id)
        /\ ~Falsy(ActivityOf(id).ratio)}

References(id) ==
    {ActivityOf(id).subingredient_default, ActivityOf(id).subingredient_variant}

\* the LCA scores of the entity's own search key
OwnImpacts(id) == [key \in impacts_definition |-> lca_score(ActivityOf(id).search, key)]

\* the order of evaluation is fixed
Ordered == pc \in {"compute", "correct", "write_ingredients", "write_builder", "done"}

\* the impact loop has gone through the entity and no correction has run
Composed(id) ==
    /\ id \in Range(order)
    /\ \/ pc = "compute" /\ Position(order, id) <= index
       \/ pc = "correct" /\ index = 0

\* the correction loop has gone through the entity
Corrected(id) ==
    /\ id \in Range(builder_keys)
    /\ \/ pc = "correct" /\ Position(builder_keys, id) <= index
       \/ pc \in {"write_ingredients", "write_builder", "done"}

RECURSIVE ReachableIn(_, _)
\* the ids reached from id by following at most n references
ReachableIn(id, n) ==
    IF n = 0 \/ id \notin ComplexIds THEN {}
    ELSE References(id) \cup UNION {ReachableIn(ref, n - 1) : ref \in References(id)}

OnCycle(id) == id \in ReachableIn(id, Len(activities))

AllResolved == \A id \in ComplexIds : References(id) \subseteq CatalogIds

Acyclic == \A id \in ComplexIds : ~OnCycle(id)

---------------------------------------------------------------------------
(* C1 *)

\* C1: in the evaluation order, every entity a complex entity refers to
\* (subingredient_default, subingredient_variant) comes before that complex
\* entity.  Stated for the catalogs whose references all resolve and form no
\* cycle, where such an order exists.  The two-group sort does not give it
\* when a complex entity refers to a complex entity listed after it.
C1_ReferencesEvaluatedFirst ==
    (Ordered /\ AllResolved /\ Acyclic) =>
        \A id \in ComplexIds : \A ref \in References(id) :
            Position(order, ref) < Position(order, id)

---------------------------------------------------------------------------
(* C2 *)

\* the references of the entity are other entities of the catalog, evaluated
\* before it
ReferencesReady(id) ==
    \A ref \in References(id) :
        /\ ref \in CatalogIds /\ ref # id
        /\ Position(order, ref) < Position(order, id)

Scaled(ratio, delta) == (ratio[1] * delta) \div ratio[2]

\* C2 as claimed: the composed value of a complex entity is
\* B[k] + ratio * (V[k] - B[k]), B and V the vectors of its base and variant
\* references.
C2_ComposedFromBase ==
    \A id \in ComplexIds :
        (Composed(id) /\ ReferencesReady(id)) =>
            LET B == builder[ActivityOf(id).subingredient_default].impacts
                V == builder[ActivityOf(id).subingredient_variant].impacts
            IN  \A k \in DOMAIN B :
                    builder[id].impacts[k] = B[k] + Scaled(ActivityOf(id).ratio, V[k] - B[k])

\* C2 amended: the composed value of a complex entity is
\* own[k] + ratio * (V[k] - B[k]) for every indicator code k, own being the
\* LCA scores of the entity's own search key.
C2_ComposedFromOwn ==
    \A id \in ComplexIds :
        (Composed(id) /\ ReferencesReady(id)) =>
            LET B == builder[ActivityOf(id).subingredient_default].impacts
                V == builder[ActivityOf(id).subingredient_variant].impacts
            IN  /\ DOMAIN builder[id].impacts = impacts_definition
                /\ \A k \in impacts_definition :
                       builder[id].impacts[k] =
                           OwnImpacts(id)[k] + Scaled(ActivityOf(id).ratio, V[k] - B[k])

\* a complex entity composed from two other entities whose scores differ
C2_Witness ==
    \E id \in ComplexIds :
        /\ Composed(id) /\ ReferencesReady(id)
        /\ builder[id].impacts["co2"] # OwnImpacts(id)["co2"]

---------------------------------------------------------------------------
(* C3 to C6: the correction step *)

ReportedImpacts == {corrections[i].name : i \in 1 .. Len(corrections)}

SubImpactsOf(rule) == {rule.correction[j].sub_impact : j \in 1 .. Len(rule.correction)}

SubImpacts == UNION {SubImpactsOf(corrections[i]) : i \in 1 .. Len(corrections)}

\* no reported indicator is listed as a sub-indicator of a rule
NoReportedAsSub == ReportedImpacts \cap SubImpacts = {}

RECURSIVE WeightedSum(_, _, _)
\* sum of weighting * vector[sub_impact] over the first n items of a rule
\* whose sub-impact is a key of the vector
WeightedSum(vector, correction, n) ==
    IF n = 0 THEN 0
    ELSE WeightedSum(vector, correction, n - 1)
            + (IF correction[n].sub_impact \in DOMAIN vector
                   THEN correction[n].weighting * vector[correction[n].sub_impact]
                   ELSE 0)

\* the process the next step of the correction loop corrects
NextCorrected == builder_keys[index + 1]

\* no rule lists a sub-indicator twice
NoRepeatInRule ==
    \A i \in 1 .. Len(corrections) :
        Cardinality(SubImpactsOf(corrections[i])) = Len(corrections[i].correction)

\* C3: correcting a process gives every reported indicator r the value
\* sum of wi * raw[si] over the items (si, wi) of its rule whose si is in the
\* vector the process had before the correction.  Stated for the rule sets in
\* which no reported indicator is a sub-indicator and no rule lists a
\* sub-indicator twice; a sub-indicator listed by two rules is deleted by
\* the first and counts for nothing in the second.
C3_WeightedSumOfRaw ==
    [][(pc = "correct" /\ NoReportedAsSub /\ NoRepeatInRule) =>
          \A i \in 1 .. Len(corrections) :
              /\ corrections[i].name \in DOMAIN builder'[NextCorrected].impacts
              /\ builder'[NextCorrected].impacts[corrections[i].name] =
                     WeightedSum(builder[NextCorrected].impacts,
                                 corrections[i].correction,
                                 Len(corrections[i].correction))]_vars

\* C4 as claimed: once a process is corrected, no sub-indicator of any rule
\* is a key of its impacts, whatever the rule set.
C4_NoSubImpactLeft ==
    \A id \in DOMAIN builder :
        Corrected(id) => SubImpacts \cap DOMAIN builder[id].impacts = {}

\* C4 amended: once a process is corrected, no sub-indicator of any rule is
\* a key of its impacts, for every rule set in which no reported indicator
\* is itself listed as a sub-indicator.
C4_NoSubImpactLeftUnlessReported ==
    NoReportedAsSub =>
        \A id \in DOMAIN builder :
            Corrected(id) => SubImpacts \cap DOMAIN builder[id].impacts = {}

\* a corrected process, two rules, a sub-indicator the LCA engine reports
C4_Witness ==
    /\ NoReportedAsSub
    /\ Len(corrections) = 2
    /\ "co2" \in SubImpacts
    /\ \E id \in DOMAIN builder :
           Corrected(id) /\ ReportedImpacts \subseteq DOMAIN builder[id].impacts

\* C5: the correction of a process leaves every indicator that is neither a
\* reported indicator nor a sub-indicator of a rule as it was: a key before
\* if and only if a key after, with the same value.
C5_UnmentionedUntouched ==
    [][pc = "correct" =>
          \A id \in DOMAIN builder :
              \A k \in ((DOMAIN builder[id].impacts) \cup (DOMAIN builder'[id].impacts))
                          \ (ReportedImpacts \cup SubImpacts) :
                  /\ k \in DOMAIN builder[id].impacts
                  /\ k \in DOMAIN builder'[id].impacts
                  /\ builder'[id].impacts[k] = builder[id].impacts[k]]_vars

\* a corrected process that lost a sub-indicator and kept an indicator no
\* rule mentions
C5_Witness ==
    \E id \in DOMAIN builder :
        /\ Corrected(id)
        /\ "co2" \in SubImpacts
        /\ "co2" \notin DOMAIN builder[id].impacts
        /\ "etf1" \notin ReportedImpacts \cup SubImpacts
        /\ "etf1" \in DOMAIN builder[id].impacts
        /\ builder[id].impacts["etf1"] # 0

Reordered(rules, f) == [i \in 1 .. Len(rules) |-> rules[f[i]]]

\* C6: the rules applied in any other order give the process about to be
\* corrected the same corrected vector.  Stated for the rule sets in which
\* no reported indicator is a sub-indicator.
C6_OrderIndependent ==
    (pc = "correct" /\ NoReportedAsSub) =>
        \A f \in Permutations(1 .. Len(corrections)) :
            corrected_impacts(builder[NextCorrected].impacts,
                              Reordered(corrections, f), Len(corrections))
                = corrected_impacts(builder[NextCorrected].impacts,
                                    corrections, Len(corrections))

---------------------------------------------------------------------------
(* C7 *)

SimpleIds == CatalogIds \ ComplexIds

\* C7: the vector the impact loop stores for a simple entity has the twin
\* codes merged, as compute_impacts returns it: etf-o = etf-o1 + etf-o2 and
\* etf = etf1 + etf2 are keys, etf-o1, etf-o2, etf1 and etf2 are not.
C7_TwinsMerged ==
    \A id \in SimpleIds :
        Composed(id) =>
            /\ {"etf-o", "etf"} \subseteq DOMAIN builder[id].impacts
            /\ {"etf-o1", "etf-o2", "etf1", "etf2"} \cap DOMAIN builder[id].impacts = {}
            /\ builder[id].impacts = compute_impacts(ActivityOf(id).search)

---------------------------------------------------------------------------
(* C8 to C10: references that cannot be read *)

NothingComputed == \A id \in DOMAIN builder : builder[id].impacts = << >>

NothingWritten == DOMAIN files = {}

\* a complex entity names an id that is not in the catalog
HasUnresolvedReference == \E id \in ComplexIds : ~(References(id) \subseteq CatalogIds)

\* C8: with a reference to an id that is not in the catalog the run fails
\* before the impacts of any entity are computed and writes no file.
C8_UnresolvedReferenceStopsRun ==
    HasUnresolvedReference => (NothingComputed /\ NothingWritten)

\* the impact loop went through the complex entity to its end
Constructed(id) ==
    /\ id \in DOMAIN builder
    /\ builder[id].impacts # << >>
    /\ builder[id].name = constructed_name(id)

\* C9: with a cycle in the references of the complex entities the run fails
\* when ordering: no complex entity with a reference on a cycle is ever
\* composed and no file is written.  Stated for the catalogs whose
\* references all resolve.
C9_CycleStopsRun ==
    AllResolved =>
        \A id \in ComplexIds :
            (\E ref \in References(id) : OnCycle(ref)) =>
                (~Constructed(id) /\ NothingWritten)

\* the variant of the entity is evaluated after it, so that its vector has
\* no key when the entity is composed; the vector of the default is there
VariantVectorEmpty(id) ==
    LET variant == ActivityOf(id).subingredient_variant
        default == ActivityOf(id).subingredient_default
    IN  /\ id \in Range(order)
        /\ variant \in CatalogIds /\ variant # id
        /\ Position(order, variant) > Position(order, id)
        /\ default \in CatalogIds /\ default # id
        /\ Position(order, default) < Position(order, id)

\* C10: an indicator code k that the vector of the variant lacks counts as
\* V[k] = 0: the run does not halt on the entity and the composed value is
\* the value of the formula with V[k] = 0 (from the entity's own score, or
\* from B[k] as C2 has it).
C10_MissingVariantCountsZero ==
    \A id \in ComplexIds :
        VariantVectorEmpty(id) =>
            /\ ~(pc = "aborted" /\ order[index + 1] = id)
            /\ Composed(id) =>
                   LET B == builder[ActivityOf(id).subingredient_default].impacts
                   IN  \A k \in DOMAIN B :
                           builder[id].impacts[k]
                               \in {OwnImpacts(id)[k] + Scaled(ActivityOf(id).ratio, 0 - B[k]),
                                    B[k] + Scaled(ActivityOf(id).ratio, 0 - B[k])}

---------------------------------------------------------------------------
(* C11 *)

\* the entities declared with the three attributes and ratio = 0
RatioZeroIds ==
    {id \in CatalogIds :
        /\ ComplexAttributes \subseteq DOMAIN ActivityOf(id)
        /\ ActivityOf(id).ratio # NoRatio
        /\ ActivityOf(id).ratio[1] = 0}

\* C11 as claimed: an entity declared with ratio = 0 whose base reference
\* has been evaluated holds the vector of its base reference.
C11_RatioZeroEqualsBase ==
    \A id \in RatioZeroIds :
        LET default == ActivityOf(id).subingredient_default
        IN  (Composed(id) /\ default \in CatalogIds /\ Composed(default)) =>
                builder[id].impacts = builder[default].impacts

\* C11 amended: an entity declared with ratio = 0 is handled as a simple
\* entity: it loses the three attributes, keeps the name of its own search
\* result, and its vector is the LCA vector of its own search key.
C11_RatioZeroKeepsOwn ==
    \A id \in RatioZeroIds :
        Composed(id) =>
            /\ builder[id].impacts = OwnImpacts(id)
            /\ builder[id].name = search(ActivityOf(id).search).name
            /\ ComplexAttributes \cap DOMAIN builder[id] = {}

\* an entity with ratio = 0 and its base reference, both evaluated, with
\* different scores
C11_Witness ==
    \E id \in RatioZeroIds :
        LET default == ActivityOf(id).subingredient_default
        IN  /\ Composed(id) /\ default \in CatalogIds /\ Composed(default)
            /\ builder[id].impacts # builder[default].impacts

---------------------------------------------------------------------------
(* C12, C13: failures of the search and of the references *)

\* the database has no result for the search key of some entity
HasUnknownSearch ==
    \E i \in 1 .. Len(activities) : ~search_found(activities[i].search)

\* the ids of the records of builder.json, in the order of the file
PublishedIds ==
    IF BUILDER \in DOMAIN files
        THEN [i \in 1 .. Len(files[BUILDER]) |-> files[BUILDER][i][1]]
        ELSE << >>

\* C12: an entity whose search key the database cannot resolve does not stop
\* the run: the run is never aborted, and at its end builder.json holds every
\* entity whose search key resolves, with its impacts computed.
C12_SearchFailureNonFatal ==
    HasUnknownSearch =>
        /\ pc # "aborted"
        /\ pc = "done" =>
               \A i \in 1 .. Len(activities) :
                   search_found(activities[i].search) =>
                       /\ activities[i].id \in Range(PublishedIds)
                       /\ builder[activities[i].id].impacts # << >>

\* one of the references of the complex entity is no entity of the catalog
FailedReference(id) == ~(References(id) \subseteq CatalogIds)

\* C13: a complex entity one of whose references did not resolve is never a
\* record of builder.json.
C13_UnresolvedNotPublished ==
    \A id \in ComplexIds :
        FailedReference(id) => id \notin Range(PublishedIds)

---------------------------------------------------------------------------
(* C19: the order of builder.json *)

RECURSIVE FirstSeen(_)
\* the ids of the first n activities, each at the place where it first occurs
FirstSeen(n) ==
    IF n = 0 THEN << >>
    ELSE LET seen == FirstSeen(n - 1)
         IN  IF activities[n].id \in Range(seen)
                 THEN seen ELSE Append(seen, activities[n].id)

\* C19: the records of builder.json are in the order of the catalog, whatever
\* the order of the impact loop and whatever happened in it; the order is
\* a function of the catalog alone, so two runs on one catalog agree.
C19_PublishedInCatalogOrder ==
    BUILDER \in DOMAIN files => PublishedIds = FirstSeen(Len(activities))

\* builder.json is written after an impact loop that did not follow the
\* order of the catalog
C19_Witness ==
    /\ BUILDER \in DOMAIN files
    /\ order # FirstSeen(Len(activities))
    /\ PublishedIds = FirstSeen(Len(activities))

---------------------------------------------------------------------------
(* The object export: configuration and the functions of compute_impacts *)

PROCESSES_FILE == "ECOBALYSE_DATA_DIR/data/object/processes_impacts.json"

ECOINVENT == "Ecoinvent 3.9.1"

\* common.impacts.impacts: the methods by indicator code
definitions == impacts_definition

\* cached_search(database, name) finds an activity
cached_search_found(database, name) == database = ECOINVENT /\ name \in DbNames

cached_search(database, name) == [database |-> database, name |-> name]

\* lca.score of an activity for the method of one code, in units of 1/10000;
\* the scores of the object activities are whole multiples of 1000 units
bw_score(activity, key) == 8 * lca_score(activity.name, key)

\* float("{:.10g}".format(score)): the score kept to 10 significant digits
format_10g(score) ==
    IF -1000000000 < score /\ score < 1000000000
        THEN score
        ELSE IF score >= 0 THEN ((score + 5) \div 10) * 10
                           ELSE 0 - (((0 - score) + 5) \div 10) * 10

compute_brightway_impacts(activity) ==
    [key \in definitions |-> format_10g(bw_score(activity, key))]

\* the two unit conversions: v * 3.6 for kilowatt hour, v / 1000 for litre
unit_converted(unit, results) ==
    LET kwh == IF unit = "kilowatt hour"
                   THEN [k \in DOMAIN results |-> (results[k] * 18) \div 5]
                   ELSE results
    IN  IF unit = "litre" THEN [k \in DOMAIN kwh |-> kwh[k] \div 1000] ELSE kwh

\* the static table of the decomposition: <<source code, source code, merged code>>
TwinTable == { <<"etf-o1", "etf-o2", "etf-o">>, <<"etf1", "etf2", "etf">> }

\* with_subimpacts(impacts): each pair of twin codes is summed into its
\* merged code and the two source codes are discarded
with_subimpacts(impacts) ==
    LET twins   == {t \in TwinTable : {t[1], t[2]} \subseteq DOMAIN impacts}
        sources == UNION {{t[1], t[2]} : t \in twins}
        merged  == {t[3] : t \in twins}
    IN  [k \in ((DOMAIN impacts) \ sources) \cup merged |->
            IF k \in merged
                THEN LET t == CHOOSE t \in twins : t[3] = k
                     IN  impacts[t[1]] + impacts[t[2]]
                ELSE impacts[k]]

\* the impacts compute_impacts stores for a process: lines 96 to 114
process_impacts(process) ==
    with_subimpacts(
        unit_converted(process.unit,
            compute_brightway_impacts(
                cached_search(Get(process, "database", ECOINVENT), process.name))))

\* the corrected vector of one process: each reported indicator is the
\* weighted sum of its sub-indicators over the raw vector, the sub-indicators
\* of the rules are removed, the other indicators pass through
corrected_vector(raw, rules) ==
    LET names == {rules[i].name : i \in 1 .. Len(rules)}
        subs  == UNION {SubImpactsOf(rules[i]) : i \in 1 .. Len(rules)}
    IN  [k \in ((DOMAIN raw) \ subs) \cup names |->
            IF k \in names
                THEN LET rule == rules[CHOOSE i \in 1 .. Len(rules) : rules[i].name = k]
                     IN  WeightedSum(raw, rule.correction, Len(rule.correction))
                ELSE raw[k]]

\* with_corrected_impacts(impacts_def, processes): the items of a new mapping
with_corrected_impacts(rules, items) ==
    [i \in 1 .. Len(items) |->
        << items[i][1],
           Set(items[i][2], "impacts", corrected_vector(items[i][2].impacts, rules)) >>]

\* list(mapping.values())
values(items) == [i \in 1 .. Len(items) |-> items[i][2]]

---------------------------------------------------------------------------
(* The change report of display_changes *)

Abs(x) == IF x < 0 THEN 0 - x ELSE x

\* the ids in the order the report is sorted by
IdAlphabet == ActivityIds \o <<"z">>

sorted_ids(ids) == SelectSeq(IdAlphabet, LAMBDA id : id \in ids)

\* a score differs as soon as it is not lower
beyond_tolerance_inclusive(old, new) == Abs(new - old) >= Abs(old) \div 1000000

\* two scores differ by more than the relative tolerance of 1e-6; the
\* absolute floor for values near zero is below one unit of the scores
beyond_tolerance(old, new) == Abs(new - old) > Abs(old) \div 1000000

\* the fields of a record other than its impacts whose values differ
modified_fields(old, new) ==
    {f \in ((DOMAIN old) \cup (DOMAIN new)) \ {"impacts"} :
        \/ f \notin DOMAIN old
        \/ f \notin DOMAIN new
        \/ old[f] # new[f]}

\* the indicator codes of two records whose scores differ
modified_codes(old, new) ==
    LET o == Get(old, "impacts", << >>)
        n == Get(new, "impacts", << >>)
    IN  {k \in (DOMAIN o) \cup (DOMAIN n) :
            \/ k \notin DOMAIN o
            \/ k \notin DOMAIN n
            \/ beyond_tolerance(o[k], n[k])}

\* the record of a list with this value of the key
record_of(list, key, id) ==
    list[CHOOSE i \in 1 .. Len(list) :
            /\ list[i][key] = id
            /\ \A j \in (i + 1) .. Len(list) : list[j][key] # id]

\* display_changes(key, old, new): old is the list loaded from the file, new
\* the items of the corrected mapping; one change record per entity added,
\* removed or modified, sorted by id
display_changes(key, old, new) ==
    LET old_ids  == {old[i][key] : i \in 1 .. Len(old)}
        new_ids  == {new[i][1] : i \in 1 .. Len(new)}
        new_list == values(new)
        modified == {id \in old_ids \cap new_ids :
                        LET o == record_of(old, key, id)
                            n == record_of(new_list, key, id)
                        IN  modified_fields(o, n) \cup modified_codes(o, n) # {}}
        reported == sorted_ids((new_ids \ old_ids) \cup (old_ids \ new_ids) \cup modified)
    IN  [i \in 1 .. Len(reported) |->
            LET id == reported[i]
            IN  IF id \notin old_ids THEN [id |-> id, kind |-> "added", fields |-> {}]
                ELSE IF id \notin new_ids THEN [id |-> id, kind |-> "removed", fields |-> {}]
                ELSE [id |-> id, kind |-> "modified",
                      fields |-> modified_fields(record_of(old, key, id),
                                                 record_of(new_list, key, id))
                                   \cup modified_codes(record_of(old, key, id),
                                                       record_of(new_list, key, id))]]

---------------------------------------------------------------------------
(* Inputs of the object export *)

Units == {"kilogram", "kilowatt hour", "litre"}

ObjectNames == {"s1", "s2"}

ObjectActivity(i, name, unit) == [id |-> ActivityIds[i], name |-> name, unit |-> unit]

\* the activity lists of n activities with distinct ids
ObjectCatalogsOfLen(n) ==
    {[i \in 1 .. n |-> ObjectActivity(i, choice[i][1], choice[i][2])] :
        choice \in [1 .. n -> ObjectNames \X Units]}

\* activity lists with one activity the database does not know
ObjectUnknownCatalogs ==
    { << ObjectActivity(1, "s1", "kilogram"), ObjectActivity(2, "unknown", "kilogram") >>,
      << ObjectActivity(1, "unknown", "litre") >> }

\* activity lists in which two activities have the same id
ObjectDuplicateCatalogs ==
    { << ObjectActivity(1, "s1", "kilogram"),
         [ObjectActivity(2, "s2", "litre") EXCEPT !.id = "a"] >> }

ObjectCatalogs ==
    UNION {ObjectCatalogsOfLen(n) : n \in 1 .. MaxEntities}
        \cup ObjectUnknownCatalogs \cup ObjectDuplicateCatalogs

\* the dataset a run over a catalog exports
exported_dataset(catalog) ==
    [i \in 1 .. Len(catalog) |->
        Set(catalog[i], "impacts",
            corrected_vector(process_impacts(catalog[i]), DefaultCorrections))]

\* PROCESSES_FILE as a run over a catalog may find it: missing, not a JSON
\* file, or the dataset of an earlier export, which is the dataset of this
\* catalog, lacks its first process, has one process more, or has another
\* score
PreviousDatasets(catalog) ==
    LET dataset == exported_dataset(catalog)
        extra   == [dataset[1] EXCEPT !.id = "z"]
    IN  { [status |-> "absent", content |-> << >>],
          [status |-> "unreadable", content |-> << >>],
          [status |-> "present", content |-> dataset],
          [status |-> "present", content |-> Tail(dataset)],
          [status |-> "present", content |-> Append(dataset, extra)],
          [status |-> "present", content |-> [dataset EXCEPT ![1].impacts.etf = @ + 1000]] }

---------------------------------------------------------------------------
(* The object export: the script *)

\* the state after load_json(ACTIVITIES_FILE)
InitObject ==
    /\ activities \in ObjectCatalogs
    /\ corrections = DefaultCorrections
    /\ previous \in PreviousDatasets(activities)
    /\ pc = "create_process_list"
    /\ index = 0
    /\ files = << >>
    /\ ingredients = << >>
    /\ builder = << >>
    /\ builder_keys = << >>
    /\ order = << >>
    /\ processes = << >>
    /\ processes_impacts = << >>
    /\ processes_corrected_impacts = << >>
    /\ oldprocesses = << >>
    /\ changes = << >>
    /\ MergeIdle /\ DistancesIdle /\ ImportIdle /\ ViewIdle

\* create_process_list(activities): the values of the mapping are the
\* records of the list themselves
create_process_list(acts) ==
    LET keys == KeysInOrder(acts, Len(acts))
    IN  [i \in 1 .. Len(keys) |-> <<keys[i], LastWithId(keys[i])>>]

CreateProcessList ==
    /\ pc = "create_process_list"
    /\ processes' = create_process_list(activities)
    /\ pc' = "compute_impacts"
    /\ UNCHANGED <<activities, corrections, index, files, processes_impacts,
                   processes_corrected_impacts, previous, oldprocesses, changes>>
    /\ UNCHANGED food_vars
    /\ UNCHANGED tool_vars

\* frozendict({k: frozendict(v) for k, v in processes.items()})
frozen_copy(items, acts) ==
    [i \in 1 .. Len(items) |-> <<items[i][1], acts[items[i][2]]>>]

\* one pass of the loop of compute_impacts, which works on dict(processes_fd):
\* a new dict of the same records; after the last pass the function returns
ComputeImpacts ==
    /\ pc = "compute_impacts"
    /\ index < Len(processes)
    /\ LET ref     == processes[index + 1][2]
           process == activities[ref]
       IN  IF cached_search_found(Get(process, "database", ECOINVENT), process.name)
               THEN /\ activities' = [activities EXCEPT
                                         ![ref] = Set(process, "impacts",
                                                      process_impacts(process))]
                    /\ IF index + 1 = Len(processes)
                           THEN /\ processes_impacts' = frozen_copy(processes, activities')
                                /\ index' = 0
                                /\ pc' = "with_corrected_impacts"
                           ELSE /\ index' = index + 1
                                /\ UNCHANGED <<processes_impacts, pc>>
               ELSE /\ pc' = "aborted"
                    /\ UNCHANGED <<activities, index, processes_impacts>>
    /\ UNCHANGED <<corrections, files, processes, processes_corrected_impacts,
                   previous, oldprocesses, changes>>
    /\ UNCHANGED food_vars
    /\ UNCHANGED tool_vars

\* the corrected dataset exported as soon as it is produced
WithCorrectedImpacts_then_export ==
    /\ pc = "with_corrected_impacts"
    /\ processes_corrected_impacts' = with_corrected_impacts(corrections, processes_impacts)
    /\ files' = Set(files, PROCESSES_FILE, values(processes_corrected_impacts'))
    /\ pc' = "load_oldprocesses"
    /\ UNCHANGED <<activities, corrections, index, processes, processes_impacts,
                   previous, oldprocesses, changes>>
    /\ UNCHANGED food_vars
    /\ UNCHANGED tool_vars

WithCorrectedImpacts ==
    /\ pc = "with_corrected_impacts"
    /\ processes_corrected_impacts' = with_corrected_impacts(corrections, processes_impacts)
    /\ pc' = "load_oldprocesses"
    /\ UNCHANGED <<activities, corrections, index, files, processes, processes_impacts,
                   previous, oldprocesses, changes>>
    /\ UNCHANGED food_vars
    /\ UNCHANGED tool_vars

\* load_json raising for a missing file as for a file that is no JSON
LoadOldProcesses_missing_raises ==
    /\ pc = "load_oldprocesses"
    /\ IF previous.status # "present"
           THEN /\ pc' = "aborted"
                /\ UNCHANGED oldprocesses
           ELSE /\ oldprocesses' = previous.content
                /\ pc' = "display_changes"
    /\ UNCHANGED <<activities, corrections, index, files, processes, processes_impacts,
                   processes_corrected_impacts, previous, changes>>
    /\ UNCHANGED food_vars
    /\ UNCHANGED tool_vars

\* load_json(PROCESSES_FILE): a file that is no JSON raises; a missing file
\* is an empty dataset
LoadOldProcesses ==
    /\ pc = "load_oldprocesses"
    /\ IF previous.status = "unreadable"
           THEN /\ pc' = "aborted"
                /\ UNCHANGED oldprocesses
           ELSE /\ oldprocesses' = IF previous.status = "absent"
                                       THEN << >> ELSE previous.content
                /\ pc' = "display_changes"
    /\ UNCHANGED <<activities, corrections, index, files, processes, processes_impacts,
                   processes_corrected_impacts, previous, changes>>
    /\ UNCHANGED food_vars
    /\ UNCHANGED tool_vars

\* the script stopping on a report that is not empty
DisplayChanges_blocking ==
    /\ pc = "display_changes"
    /\ changes' = display_changes("id", oldprocesses, processes_corrected_impacts)
    /\ pc' = IF changes' = << >> THEN "export_json" ELSE "aborted"
    /\ UNCHANGED <<activities, corrections, index, files, processes, processes_impacts,
                   processes_corrected_impacts, previous, oldprocesses>>
    /\ UNCHANGED food_vars
    /\ UNCHANGED tool_vars

\* display_changes returns whatever the report holds
DisplayChanges ==
    /\ pc = "display_changes"
    /\ changes' = display_changes("id", oldprocesses, processes_corrected_impacts)
    /\ pc' = "export_json"
    /\ UNCHANGED <<activities, corrections, index, files, processes, processes_impacts,
                   processes_corrected_impacts, previous, oldprocesses>>
    /\ UNCHANGED food_vars
    /\ UNCHANGED tool_vars

\* export_json(list(processes_corrected_impacts.values()), PROCESSES_FILE)
ExportJson ==
    /\ pc = "export_json"
    /\ files' = Set(files, PROCESSES_FILE, values(processes_corrected_impacts))
    /\ pc' = "done"
    /\ UNCHANGED <<activities, corrections, index, processes, processes_impacts,
                   processes_corrected_impacts, previous, oldprocesses, changes>>
    /\ UNCHANGED food_vars
    /\ UNCHANGED tool_vars

NextObject ==
    \/ CreateProcessList
    \/ ComputeImpacts
    \/ WithCorrectedImpacts
    \/ LoadOldProcesses
    \/ DisplayChanges
    \/ ExportJson

\* the runs of the object export
SpecObject == InitObject /\ [][NextObject]_vars

\* the script runs on until it ends or raises
FairSpecObject == SpecObject /\ WF_vars(NextObject)

\* the runs of the two exports
SpecExports == (Init \/ InitObject) /\ [][Next \/ NextObject]_vars

---------------------------------------------------------------------------
(* C14: an aborted run writes nothing *)

\* C14: in a run of either export that has aborted, no output file has been
\* written.
C14_AbortedWritesNothing == pc = "aborted" => files = << >>

\* the object export aborted while loading the dataset exported before, its
\* corrected dataset being ready, and wrote nothing
C14_Witness ==
    /\ pc = "aborted"
    /\ processes_corrected_impacts # << >>
    /\ files = << >>

---------------------------------------------------------------------------
(* C16 to C18: the change report of the object export *)

\* the file holds the corrected dataset and the report is the report of
\* that dataset against the dataset loaded
WrittenAsDiffed ==
    /\ pc = "done"
    /\ PROCESSES_FILE \in DOMAIN files
    /\ files[PROCESSES_FILE] = values(processes_corrected_impacts)
    /\ changes = display_changes("id", oldprocesses, processes_corrected_impacts)

AllAdded ==
    changes = [i \in 1 .. Len(sorted_ids(CatalogIds)) |->
                  [id |-> sorted_ids(CatalogIds)[i], kind |-> "added", fields |-> {}]]

\* C17: when PROCESSES_FILE does not exist, the run does not fail once the
\* corrected dataset is produced, the report holds every entity as added,
\* and the run ends with the new dataset written.
C17_NoPreviousAllAdded ==
    previous.status = "absent" =>
        /\ pc = "aborted" => processes_corrected_impacts = << >>
        /\ pc \in {"export_json", "done"} => AllAdded
        /\ pc = "done" =>
               /\ PROCESSES_FILE \in DOMAIN files
               /\ files[PROCESSES_FILE] = values(processes_corrected_impacts)

\* a run without PROCESSES_FILE over two entities has ended
C17_Witness ==
    /\ previous.status = "absent"
    /\ pc = "done"
    /\ Len(changes) >= 2
    /\ AllAdded
    /\ PROCESSES_FILE \in DOMAIN files

\* the report is computed
Diffed == pc \in {"export_json", "done"}

\* C18: the report of a dataset against itself is empty.
C18_SelfDiffEmpty ==
    (Diffed /\ oldprocesses = values(processes_corrected_impacts)) => changes = << >>

\* the dataset loaded is the dataset of this run, which is not empty
C18_Witness ==
    /\ Diffed
    /\ oldprocesses = values(processes_corrected_impacts)
    /\ oldprocesses # << >>
    /\ changes = << >>

---------------------------------------------------------------------------
(* C20: the records of the catalog *)

\* C20: no pass of compute_impacts changes a record of the mapping it
\* received, that is, a record of the activity list.
C20_CatalogUnchanged ==
    [][pc = "compute_impacts" => activities' = activities]_vars

---------------------------------------------------------------------------
(* C15: the phases of a run *)

\* the phase of a position of one of the two scripts
Phase(position) ==
    CASE position \in {"ingredients", "builder", "remove", "check",
                       "create_process_list"}                -> "Loading"
      [] position = "sort"                                   -> "Ordering"
      [] position \in {"compute", "compute_impacts"}         -> "Composing"
      [] position \in {"correct", "with_corrected_impacts"}  -> "Correcting"
      [] position \in {"load_oldprocesses", "display_changes"} -> "Diffing"
      [] position \in {"write_ingredients", "write_builder", "export_json"} -> "Writing"
      [] position = "done"                                   -> "Done"
      [] OTHER                                               -> "Failed"

Phases == <<"Loading", "Ordering", "Composing", "Correcting", "Diffing", "Writing", "Done">>

PhaseRank(phase) == CHOOSE i \in 1 .. Len(Phases) : Phases[i] = phase

\* every entity of the run has its impacts computed
AllComposed ==
    /\ \A id \in DOMAIN builder : builder[id].impacts # << >>
    /\ Len(processes_impacts) = Len(processes)
    /\ \A i \in 1 .. Len(processes_impacts) : "impacts" \in DOMAIN processes_impacts[i][2]

\* a step that computes the change report computes it in the Diffing phase,
\* from the corrected dataset, before any file is written
DiffOnCorrected ==
    changes' # changes =>
        /\ Phase(pc) = "Diffing"
        /\ files = << >>
        /\ processes_corrected_impacts # << >>
        /\ changes' = display_changes("id", oldprocesses, processes_corrected_impacts)

\* a step that writes is a step of the Writing phase, writes one file that
\* was not written before, and leads to the Writing phase or to Done
WriteOnceAndLast ==
    files' # files =>
        /\ Phase(pc) = "Writing"
        /\ Phase(pc') \in {"Writing", "Done"}
        /\ \E name \in (DOMAIN files') \ (DOMAIN files) :
               /\ DOMAIN files' = (DOMAIN files) \cup {name}
               /\ \A other \in DOMAIN files : files'[other] = files[other]

\* a step to Failed starts in one of these phases
FailedOnlyFrom(phases) ==
    (Phase(pc') = "Failed" /\ Phase(pc) # "Failed") => Phase(pc) \in phases

---------------------------------------------------------------------------
(* C21: duplicate ids *)

\* two records of the catalog have the same id
HasDuplicateIds ==
    \E i, j \in 1 .. Len(activities) : i < j /\ activities[i].id = activities[j].id

\* C21: a run over a catalog with two records of one id fails while loading:
\* it is never in a phase after Loading.
C21_DuplicateIdsStopRun ==
    HasDuplicateIds => Phase(pc) \in {"Loading", "Failed"}

---------------------------------------------------------------------------
(* C22: the twin merge of compute_impacts, applied more than once *)

MaxMerges == 2

ScoreValues == {125, 250}

\* the vectors the loop over impacts_definition can give
RawVectors == [impacts_definition -> ScoreValues]

\* etf-o = etf-o1 + etf-o2 and the two del: reading a missing key raises
\* KeyError before the dict is changed
merge_etf_o(impacts) ==
    IF {"etf-o1", "etf-o2"} \subseteq DOMAIN impacts
        THEN [raised |-> FALSE,
              impacts |-> Del(Del(Set(impacts, "etf-o",
                                      impacts["etf-o1"] + impacts["etf-o2"]),
                                  "etf-o1"), "etf-o2")]
        ELSE [raised |-> TRUE, impacts |-> impacts]

\* etf = etf1 + etf2 and the two del
merge_etf(impacts) ==
    IF {"etf1", "etf2"} \subseteq DOMAIN impacts
        THEN [raised |-> FALSE,
              impacts |-> Del(Del(Set(impacts, "etf", impacts["etf1"] + impacts["etf2"]),
                                  "etf1"), "etf2")]
        ELSE [raised |-> TRUE, impacts |-> impacts]

\* the merge statements of compute_impacts run on a dict
merge_twins(impacts) ==
    LET first == merge_etf_o(impacts)
    IN  IF first.raised THEN first ELSE merge_etf(first.impacts)

InitMerge ==
    /\ merge_vector \in RawVectors
    /\ merge_raised = FALSE
    /\ merge_applied = 0
    /\ ExportsIdle /\ DistancesIdle /\ ImportIdle /\ ViewIdle

ApplyMerge ==
    /\ ~merge_raised
    /\ merge_applied < MaxMerges
    /\ LET result == merge_twins(merge_vector)
       IN  /\ merge_vector' = result.impacts
           /\ merge_raised' = result.raised
    /\ merge_applied' = merge_applied + 1
    /\ UNCHANGED <<export_vars, distance_vars, import_vars, view_vars>>

\* the merge applied again and again to the vector of an LCA
SpecMerge == InitMerge /\ [][ApplyMerge]_vars

\* C22: applying the merge to a vector that is already merged succeeds and
\* leaves the vector as it is.
C22_MergeIdempotent ==
    [][merge_applied >= 1 => (~merge_raised' /\ merge_vector' = merge_vector)]_vars

---------------------------------------------------------------------------
(* C23: rules without weighting entries *)

\* a rule of the corrections has an empty list of weighting entries
HasEmptyRule == \E i \in 1 .. Len(corrections) : Len(corrections[i].correction) = 0

\* C23: with a rule whose list of weighting entries is empty the run stops
\* before the impacts of any entity are computed and writes no file.
C23_EmptyRuleRejected ==
    HasEmptyRule => (NothingComputed /\ NothingWritten)

---------------------------------------------------------------------------
(* C26: the check of the three attributes *)

\* an activity has some of the three keys and not all of them
HasIncompleteActivity ==
    \E i \in 1 .. Len(activities) :
        LET present == ComplexAttributes \cap DOMAIN activities[i]
        IN  present # {} /\ present # ComplexAttributes

\* C26: with an activity that has some and not all of the three keys, the
\* run does not go past the attribute check: no impact is computed and no
\* file is written; and the process the impact loop takes to the formula of
\* the complex ingredients comes from an activity with the three keys.
C26_AttributeCheck ==
    /\ HasIncompleteActivity =>
           /\ pc \in {"ingredients", "builder", "remove", "check", "aborted"}
           /\ NothingComputed
           /\ NothingWritten
    /\ (pc = "compute" /\ index < Len(order) /\ IsComplex(builder[order[index + 1]])) =>
           ComplexAttributes \subseteq DOMAIN ActivityOf(order[index + 1])

\* the run aborted on the attribute check: every search key is known
C26_Witness ==
    /\ HasIncompleteActivity
    /\ ~HasUnknownSearch
    /\ pc = "aborted"
    /\ builder # << >>
    /\ NothingComputed

---------------------------------------------------------------------------
(* distances.py: the distances between the countries of a list *)

MaxCountries == 3

\* country codes of countries_importance.csv
CountryCodes == <<"TR", "TN", "PT", "FR">>

\* the lists of n distinct codes
CountryListsOfLen(n) ==
    {list \in [1 .. n -> Range(CountryCodes)] :
        \A a, b \in 1 .. n : a # b => list[a] # list[b]}

CountryLists == UNION {CountryListsOfLen(n) : n \in 0 .. MaxCountries}

\* round(n * (n - 1) / 2)
nb_routes(n) == (n * (n - 1)) \div 2

\* what getSearatesDistance returns: the rounded dist of the reply, or None,
\* the empty tuple here, when the reply has none
SearatesReplies == {<< >>, <<1200>>}

\* round(geopy.distance.distance(coords of a, coords of b).km)
air_distance(route) ==
    500 * Abs(Position(CountryCodes, route[1]) - Position(CountryCodes, route[2]))

\* the list left as it is
list_remove_nothing(list, x) == list

\* list.remove(x): the list without the first x
list_remove(list, x) ==
    LET k == CHOOSE k \in 1 .. Len(list) :
                 list[k] = x /\ \A j \in 1 .. (k - 1) : list[j] # x
    IN  SubSeq(list, 1, k - 1) \o SubSeq(list, k + 1, Len(list))

InitDistances ==
    /\ countries \in CountryLists
    /\ remaining_countries = countries
    /\ distances = << >>
    /\ country_from_dic = << >>
    /\ route_i = 1
    /\ country_from_at = 0
    /\ country_to_at = 0
    /\ queries = << >>
    /\ ExportsIdle /\ MergeIdle /\ ImportIdle /\ ViewIdle

\* the inner loop is not running
BetweenCountries == country_from_at = 0 \/ country_to_at = Len(remaining_countries)

\* the head of a pass of the outer loop: lines 123 to 132
TakeCountry ==
    /\ BetweenCountries
    /\ country_from_at < Len(countries)
    /\ remaining_countries' = list_remove(remaining_countries, countries[country_from_at + 1])
    /\ country_from_dic' = << >>
    /\ country_from_at' = country_from_at + 1
    /\ country_to_at' = 0
    /\ UNCHANGED <<countries, distances, route_i, queries>>
    /\ UNCHANGED <<export_vars, merge_vars, import_vars, view_vars>>

\* a pass of the inner loop; after the last one the dictionary of the
\* country is stored in distances
ComputeRoute ==
    /\ ~BetweenCountries
    /\ \E road, sea \in SearatesReplies :
        LET country_from == countries[country_from_at]
            country_to   == remaining_countries[country_to_at + 1]
            route        == <<country_from, country_to>>
            dic          == Set(country_from_dic, country_to,
                                [road |-> road, sea |-> sea, air |-> air_distance(route)])
        IN  /\ queries' = queries \o << <<"road", route>>, <<"sea", route>> >>
            /\ country_from_dic' = dic
            /\ distances' = IF country_to_at + 1 = Len(remaining_countries)
                                THEN Set(distances, country_from, dic)
                                ELSE distances
    /\ route_i' = route_i + 1
    /\ country_to_at' = country_to_at + 1
    /\ UNCHANGED <<countries, remaining_countries, country_from_at>>
    /\ UNCHANGED <<export_vars, merge_vars, import_vars, view_vars>>

NextDistances == TakeCountry \/ ComputeRoute

SpecDistances == InitDistances /\ [][NextDistances]_vars

---------------------------------------------------------------------------
(* C24 *)

\* the loop over the countries has ended
DistancesDone == country_from_at = Len(countries) /\ BetweenCountries

\* number of queries of one type for a route
QueryCount(type, route) ==
    Cardinality({k \in 1 .. Len(queries) : queries[k] = <<type, route>>})

\* C24: when the loop over n distinct countries ends, every pair of
\* countries a before b of the list has been queried once for each type as
\* (a, b) and never as (b, a), its distances are stored as distances[a][b],
\* nothing else is stored, no country is paired with itself, the counter is
\* n(n-1)/2 + 1 and remaining_countries is empty.
C24_EveryPairOnce ==
    DistancesDone =>
        LET n == Len(countries)
        IN  /\ route_i = nb_routes(n) + 1
            /\ Len(queries) = 2 * nb_routes(n)
            /\ remaining_countries = << >>
            /\ \A k \in 1 .. Len(queries) : queries[k][2][1] # queries[k][2][2]
            /\ \A a, b \in 1 .. n :
                   a < b =>
                       /\ QueryCount("road", <<countries[a], countries[b]>>) = 1
                       /\ QueryCount("sea", <<countries[a], countries[b]>>) = 1
                       /\ QueryCount("road", <<countries[b], countries[a]>>) = 0
                       /\ QueryCount("sea", <<countries[b], countries[a]>>) = 0
            /\ DOMAIN distances = {countries[a] : a \in 1 .. (n - 1)}
            /\ \A a \in 1 .. (n - 1) :
                   DOMAIN distances[countries[a]] = {countries[b] : b \in (a + 1) .. n}

\* the loop over three countries has ended with three routes
C24_Witness ==
    /\ DistancesDone
    /\ Len(countries) = 3
    /\ route_i = 4
    /\ Len(queries) = 6

---------------------------------------------------------------------------
(* import.py: the cleanup loop of import_agribalyse *)

MaxDatasets == 2

MaxExchanges == 3

\* the k-th exchange of a dataset, with or without an input
Exchange(k, has_input) ==
    IF has_input THEN [name |-> k, input |-> <<"agribalyse", k>>] ELSE [name |-> k]

ExchangeLists ==
    UNION {{[k \in 1 .. n |-> Exchange(k, has_input[k])] : has_input \in [1 .. n -> BOOLEAN]} :
               n \in 0 .. MaxExchanges}

\* the datasets with a code: without exchanges key, or with a list of exchanges
DatasetsWithCode(code) ==
    {[code |-> code]} \cup {[code |-> code, exchanges |-> list] : list \in ExchangeLists}

\* list(dsdict.values()): datasets with distinct codes
ImportedData ==
    UNION {{data \in [1 .. n -> UNION {DatasetsWithCode(code) : code \in 1 .. n}] :
               \A d \in 1 .. n : data[d].code = d} :
               n \in 1 .. MaxDatasets}

\* ds.get("exchanges", [])
exchanges_of(ds) == Get(ds, "exchanges", << >>)

\* del list[i], i counted from 0
list_del(list, i) == SubSeq(list, 1, i) \o SubSeq(list, i + 2, Len(list))

InitImport ==
    /\ imported \in ImportedData
    /\ agribalyse_data = imported
    /\ ds_at = 0
    /\ exchange_at = 0
    /\ ExportsIdle /\ MergeIdle /\ DistancesIdle /\ ViewIdle

\* enumerate() has gone through the exchanges of the current dataset
ExchangesExhausted ==
    IF ds_at = 0 THEN TRUE
    ELSE exchange_at >= Len(exchanges_of(agribalyse_data[ds_at]))

\* for ds in agribalyse.data
TakeDataset ==
    /\ ExchangesExhausted
    /\ ds_at < Len(agribalyse_data)
    /\ ds_at' = ds_at + 1
    /\ exchange_at' = 0
    /\ UNCHANGED <<imported, agribalyse_data>>
    /\ UNCHANGED <<export_vars, merge_vars, distance_vars, view_vars>>

\* a pass of the loop over enumerate(ds.get("exchanges", [])): the list
\* iterator gives the element at its index and moves on by one, whatever
\* the pass deletes
CleanExchange ==
    /\ ~ExchangesExhausted
    /\ LET ds == agribalyse_data[ds_at]
           e  == exchanges_of(ds)[exchange_at + 1]
       IN  agribalyse_data' =
               IF "input" \notin DOMAIN e
                   THEN [agribalyse_data EXCEPT
                            ![ds_at].exchanges = list_del(@, exchange_at)]
                   ELSE agribalyse_data
    /\ exchange_at' = exchange_at + 1
    /\ UNCHANGED <<imported, ds_at>>
    /\ UNCHANGED <<export_vars, merge_vars, distance_vars, view_vars>>

NextImport == TakeDataset \/ CleanExchange

SpecImport == InitImport /\ [][NextImport]_vars

---------------------------------------------------------------------------
(* C25 *)

\* the cleanup loop has ended
ImportDone == ds_at = Len(agribalyse_data) /\ ExchangesExhausted

HasInput(e) == "input" \in DOMAIN e

\* C25: when the cleanup loop ends, the exchanges of every dataset are the
\* exchanges it was imported with that have an input, in their order.
C25_NoExchangeWithoutInput ==
    ImportDone =>
        \A d \in 1 .. Len(agribalyse_data) :
            exchanges_of(agribalyse_data[d]) = SelectSeq(exchanges_of(imported[d]), HasInput)

---------------------------------------------------------------------------
(* The processes view of the backend (processes/views.py)                  *)

\* number of requests of a behaviour
MaxRequests == 2

\* the files read when the module is loaded, each named by the file it holds
food_processes == "food/processes.json"

textile_processes == "textile/processes.json"

food_processes_detailed == "food/processes_impacts.json"

textile_processes_detailed == "textile/processes_impacts.json"

\* values of the token header: an empty one and two non-empty ones
Tokens == {"", "t1", "t2"}

\* the requests: every request has headers, with or without a token header
Requests ==
    { [headers |-> [host |-> "wikicarbone"]] }
    \cup { [headers |-> [host |-> "wikicarbone", token |-> t]] : t \in Tokens }

\* authentication.views.is_token_valid: the tokens it accepts are the
\* set valid_tokens, any set of header values
is_token_valid(t) == t \in valid_tokens

\* request.headers.get(k)
headers_get(req, k) == Get(req.headers, k, None)

\* "if token": None and the empty string are falsy
token_truthy(t) == t # None /\ t # ""

\* JsonResponse(data, status=200)
JsonResponse(data, code) == [status |-> code, content |-> data]

\* the view without the validation of the token
processes_view_unvalidated(req) ==
    LET token == headers_get(req, "token")
    IN  IF token_truthy(token)
        THEN JsonResponse([foodProcesses |-> food_processes_detailed,
                           textileProcesses |-> textile_processes_detailed], 200)
        ELSE JsonResponse([foodProcesses |-> food_processes,
                           textileProcesses |-> textile_processes], 200)

\* def processes(request)
processes_view(req) ==
    LET token == headers_get(req, "token")
    IN  IF token_truthy(token)
        THEN IF is_token_valid(token)
             THEN JsonResponse([foodProcesses |-> food_processes_detailed,
                                textileProcesses |-> textile_processes_detailed], 200)
             ELSE JsonResponse([error |-> "This token isn't valid"], 401)
        ELSE JsonResponse([foodProcesses |-> food_processes,
                           textileProcesses |-> textile_processes], 200)

\* the module is loaded: the four files are read, no request has come
InitView ==
    /\ valid_tokens \in SUBSET Tokens
    /\ request = << >>
    /\ response = << >>
    /\ handled = 0
    /\ ExportsIdle /\ MergeIdle /\ DistancesIdle /\ ImportIdle

\* a request arrives
ReceiveRequest ==
    /\ handled < MaxRequests
    /\ request # << >> => response # << >>
    /\ \E req \in Requests : request' = <<req>>
    /\ response' = << >>
    /\ UNCHANGED <<valid_tokens, handled>>
    /\ UNCHANGED <<export_vars, merge_vars, distance_vars, import_vars>>

\* processes(request) answers it
Processes ==
    /\ request # << >>
    /\ response = << >>
    /\ response' = <<processes_view(request[1])>>
    /\ handled' = handled + 1
    /\ UNCHANGED <<valid_tokens, request>>
    /\ UNCHANGED <<export_vars, merge_vars, distance_vars, import_vars>>

NextView == ReceiveRequest \/ Processes

SpecView == InitView /\ [][NextView]_vars

---------------------------------------------------------------------------
(* C27 *)

\* the request has been answered: response[1] answers request[1]
Answered == request # << >> /\ response # << >>

TokenPresent(req) == "token" \in DOMAIN req.headers

\* the response holds one of the detailed datasets
HasDetailed(resp) ==
    \E k \in DOMAIN resp.content :
        resp.content[k] \in {food_processes_detailed, textile_processes_detailed}

HasProcessData(resp) ==
    \E k \in DOMAIN resp.content :
        resp.content[k] \in {food_processes, textile_processes,
                             food_processes_detailed, textile_processes_detailed}

OnlyNonDetailed(resp) ==
    /\ resp.status = 200
    /\ resp.content = [foodProcesses |-> food_processes,
                       textileProcesses |-> textile_processes]

Refused(resp) ==
    /\ resp.status = 401
    /\ "error" \in DOMAIN resp.content
    /\ ~HasProcessData(resp)

\* a response with the detailed datasets answers a request with a non-empty
\* token that is_token_valid accepts
DetailedOnlyIfValid ==
    Answered =>
        (HasDetailed(response[1]) =>
            /\ TokenPresent(request[1])
            /\ request[1].headers.token # ""
            /\ is_token_valid(request[1].headers.token))

\* C27 as stated: the detailed datasets are served only for a non-empty
\* valid token, every request whose token header is present and not valid is
\* answered 401 with an error and no process data, and a request without a
\* token header is answered with the non-detailed datasets only.
C27_PresentInvalidRefused ==
    /\ DetailedOnlyIfValid
    /\ Answered =>
        /\ (TokenPresent(request[1]) /\ ~is_token_valid(request[1].headers.token))
                => Refused(response[1])
        /\ ~TokenPresent(request[1]) => OnlyNonDetailed(response[1])

\* C27, amended: the detailed datasets are served only for a non-empty valid
\* token, a request whose token is non-empty and not valid is answered 401
\* with an error and no process data, and a request without a token header
\* or with an empty one is answered with the non-detailed datasets only.
C27_NonEmptyInvalidRefused ==
    /\ DetailedOnlyIfValid
    /\ Answered =>
        /\ (/\ TokenPresent(request[1])
            /\ request[1].headers.token # ""
            /\ ~is_token_valid(request[1].headers.token))
                => Refused(response[1])
        /\ (IF TokenPresent(request[1]) THEN request[1].headers.token = "" ELSE TRUE)
                => OnlyNonDetailed(response[1])

\* a request with an empty token header that is_token_valid does not accept
\* has been answered
C27_Witness ==
    /\ Answered
    /\ TokenPresent(request[1])
    /\ request[1].headers.token = ""
    /\ ~is_token_valid("")
    /\ response[1].status = 200

===========================================================================
